---- MODULE Spec2Model ----
(***************************************************************************)
(* Model of provider_asset_cleanup.py: the response normalizer             *)
(* (_send_request), the four-strategy asset listing (list_assets), the     *)
(* extractors of contract definitions and agreements, the three deletion   *)
(* executors, the interactive selection, and the cascade of main(), one    *)
(* step per network request or operator input.                             *)
(***************************************************************************)
EXTENDS Integers, Sequences, FiniteSets, TLC

\* ------------------------------------------------------------------ bounds
MaxAssets == 1      \* items in an asset listing response
MaxSelected == 2    \* selected assets of a cascade
MaxDefs   == 1      \* items in a contract definition listing response
MaxAgrs   == 1      \* items in a contract agreement listing response
MaxParts  == 2      \* comma separated parts of one selection entry
MaxItems  == 2      \* items of an array an extractor is applied to
MaxCriteria == 2    \* criteria of one contract definition

AssetIds == {"a1", "a2"}
DefIds   == {"d1"}
AgrIds   == {"g1"}

\* Python's None, and the falsy empty string
None == "None"
Falsy(v) == v \in {None, ""}

\* ------------------------------------------------- transport results
\* What requests.request gives back: an exception, or a status code and a
\* body.  A body is empty, a JSON array (with its items), another JSON
\* value, or text that does not parse as JSON.
StatusCodes == {200, 201, 204, 404, 405, 409, 500}

EmptyBody  == [kind |-> "empty",  items |-> <<>>]
TextBody   == [kind |-> "text",   items |-> <<>>]
ObjectBody == [kind |-> "object", items |-> <<>>]
ListBody(items) == [kind |-> "list", items |-> items]

NoData == [kind |-> "none", items |-> <<>>]

TransportException == [exc |-> TRUE, code |-> 0, body |-> TextBody]
Response(code, body) == [exc |-> FALSE, code |-> code, body |-> body]

\* The responses to a request whose answer, when an array, holds `lists`
ResponsesWith(lists) ==
    {TransportException}
    \cup {Response(c, b) : c \in StatusCodes,
                           b \in {EmptyBody, TextBody, ObjectBody}}
    \cup {Response(c, ListBody(l)) : c \in StatusCodes, l \in lists}

\* The responses to a DELETE or a diagnostic GET: no array is looked at
PlainResponses == ResponsesWith({<<>>})

\* response.json(): the parsed value, or NoData when parsing raises ValueError
json_loads(body) ==
    IF body.kind \in {"list", "object"} THEN body ELSE NoData

\* A normalizer that looks at the body before the status code
send_request_body_first(r) ==
    IF r.exc
    THEN [status |-> "exception", status_code |-> 0,
          data |-> NoData, content |-> TextBody]
    ELSE IF r.body.kind = "empty"
    THEN [status |-> "success_no_content", status_code |-> r.code,
          data |-> NoData, content |-> r.body]
    ELSE IF 200 <= r.code /\ r.code < 300
    THEN IF json_loads(r.body) # NoData
         THEN [status |-> "success_json", status_code |-> r.code,
               data |-> json_loads(r.body), content |-> r.body]
         ELSE [status |-> "success_non_json", status_code |-> r.code,
               data |-> NoData, content |-> r.body]
    ELSE [status |-> "failed", status_code |-> r.code,
          data |-> NoData, content |-> r.body]

\* _send_request: the uniform outcome dictionary
send_request(r) ==
    IF r.exc
    THEN [status |-> "exception", status_code |-> 0,
          data |-> NoData, content |-> TextBody]
    ELSE IF 200 <= r.code /\ r.code < 300
    THEN IF r.body.kind = "empty"
         THEN [status |-> "success_no_content", status_code |-> r.code,
               data |-> NoData, content |-> r.body]
         ELSE IF json_loads(r.body) # NoData
         THEN [status |-> "success_json", status_code |-> r.code,
               data |-> json_loads(r.body), content |-> r.body]
         ELSE [status |-> "success_non_json", status_code |-> r.code,
               data |-> NoData, content |-> r.body]
    ELSE [status |-> "failed", status_code |-> r.code,
          data |-> NoData, content |-> r.body]

\* ------------------------------------------------------- asset listing
\* A raw item of an asset listing: a dictionary (with its '@id', None when
\* absent, and the kind of its 'properties' value) or not a dictionary.
RawAssetItems ==
    [kind : {"dict"}, id : AssetIds \cup {None},
     props : {"absent", "dict", "other"}]
    \cup {[kind |-> "str", id |-> None, props |-> "absent"]}

SeqsUpTo(S, n) == UNION {[1..k -> S] : k \in 0..n}

RawAssetLists == SeqsUpTo(RawAssetItems, MaxAssets)

Strategies == <<[method |-> "GET",  path |-> "/v3/assets"],
                [method |-> "POST", path |-> "/v3/assets/request"],
                [method |-> "POST", path |-> "/v2/assets/request"],
                [method |-> "GET",  path |-> "/v2/assets"]>>

\* actual_asset_list of strategy 1 (lines 84-94): the data when it is a
\* list, else a second parse of the content of a 200 response
actual_asset_list_v3_get(rd) ==
    IF rd.status \in {"success_json", "success_non_json"}
       /\ rd.data.kind = "list"
    THEN rd.data
    ELSE IF rd.status_code = 200
    THEN IF json_loads(rd.content).kind = "list"
         THEN json_loads(rd.content) ELSE NoData
    ELSE NoData

\* actual_asset_list of strategies 2, 3 and 4
actual_asset_list_json(rd) ==
    IF rd.status = "success_json" /\ rd.data.kind = "list"
    THEN rd.data ELSE NoData

actual_asset_list(k, rd) ==
    IF k = 1 THEN actual_asset_list_v3_get(rd) ELSE actual_asset_list_json(rd)

\* The extraction loops.  asset_data.get raises AttributeError on an item
\* that is not a dictionary; strategies 3 and 4 also call .get on the
\* 'properties' value of every item that has an '@id'.
ItemRaises(k, item) ==
    \/ item.kind # "dict"
    \/ k \in {3, 4} /\ ~Falsy(item.id) /\ item.props = "other"

RECURSIVE extract_assets(_, _, _, _)
extract_assets(k, items, i, acc) ==
    IF i > Len(items) THEN [raised |-> FALSE, assets |-> acc]
    ELSE IF ItemRaises(k, items[i]) THEN [raised |-> TRUE, assets |-> <<>>]
    ELSE IF Falsy(items[i].id) THEN extract_assets(k, items, i + 1, acc)
    ELSE extract_assets(k, items, i + 1, Append(acc, items[i].id))

\* A list_assets that raises when every strategy is exhausted
raises_when_exhausted(k) == IF k < 4 THEN "list" ELSE "raise"

\* Where list_assets goes after strategy k gave no usable list
NoUsableList(k) == IF k < 4 THEN "list" ELSE "empty"

\* ------------------------------------------- contract definition listing
\* The operandLeft values: the configured namespace + 'id', the literal
\* default namespace + 'id' (both accepted, lines 302-303), anything else.
EdcIdOperands == {"ns:id", "https://w3id.org/edc/v0.0.1/ns/id"}

Criterion(left, op, right) ==
    [kind |-> "dict", operandLeft |-> left, operator |-> op,
     operandRight |-> right]

\* The value of 'assetsSelector' or of 'criterion': absent, one criterion
\* object, a list of criteria, or some other JSON value
AbsentSel    == [shape |-> "absent", crits |-> <<>>]
OtherSel     == [shape |-> "other",  crits |-> <<>>]
DictSel(c)   == [shape |-> "dict",   crits |-> <<c>>]
ListSel(cs)  == [shape |-> "list",   crits |-> cs]

RawDef(id, sel, legacy) ==
    [kind |-> "dict", id |-> id, assetsSelector |-> sel, criterion |-> legacy]
NonDictDef == [kind |-> "str", id |-> None,
               assetsSelector |-> AbsentSel, criterion |-> AbsentSel]

\* criteria_to_check (lines 285-296)
criteria_to_check(item) ==
    IF item.assetsSelector.shape \in {"dict", "list"}
    THEN item.assetsSelector.crits
    ELSE IF item.criterion.shape \in {"dict", "list"}
    THEN item.criterion.crits
    ELSE <<>>

\* A loop without the break: the last matching criterion wins
RECURSIVE asset_selector_value_last(_, _, _)
asset_selector_value_last(crits, i, val) ==
    IF i > Len(crits) THEN val
    ELSE IF crits[i].kind = "dict"
            /\ crits[i].operandLeft \in EdcIdOperands
            /\ crits[i].operator = "="
    THEN asset_selector_value_last(crits, i + 1, crits[i].operandRight)
    ELSE asset_selector_value_last(crits, i + 1, val)

\* The loop of lines 298-309: the operandRight of a matching criterion is
\* taken, and the loop stops at the first one that is truthy
RECURSIVE asset_selector_value(_, _, _)
asset_selector_value(crits, i, val) ==
    IF i > Len(crits) THEN val
    ELSE IF crits[i].kind = "dict"
            /\ crits[i].operandLeft \in EdcIdOperands
            /\ crits[i].operator = "="
    THEN IF ~Falsy(crits[i].operandRight)
         THEN crits[i].operandRight
         ELSE asset_selector_value(crits, i + 1, crits[i].operandRight)
    ELSE asset_selector_value(crits, i + 1, val)

ContractDefinition(item) ==
    [id |-> item.id,
     assetsSelectorTarget |->
        asset_selector_value(criteria_to_check(item), 1, None)]

\* The loop of lines 274-316: non-dictionaries and items without '@id' are
\* skipped
RECURSIVE extract_definitions(_, _, _)
extract_definitions(items, i, acc) ==
    IF i > Len(items) THEN acc
    ELSE IF items[i].kind # "dict" \/ Falsy(items[i].id)
    THEN extract_definitions(items, i + 1, acc)
    ELSE extract_definitions(items, i + 1,
                             Append(acc, ContractDefinition(items[i])))

\* A listing that reads the array of any response, failed ones too
list_contract_definitions_any_status(rd) ==
    IF rd.content.kind = "list"
    THEN extract_definitions(rd.content.items, 1, <<>>)
    ELSE <<>>

\* list_contract_definitions on the normalized outcome (lines 266-327)
list_contract_definitions(rd) ==
    IF rd.status = "success_json" /\ rd.data.kind = "list"
    THEN extract_definitions(rd.data.items, 1, <<>>)
    ELSE <<>>

\* The raw definition items the run is fed
RawDefItems ==
    {NonDictDef, RawDef(None, AbsentSel, AbsentSel)}
    \cup {RawDef(d, AbsentSel, AbsentSel) : d \in DefIds}
    \cup {RawDef(d, ListSel(<<Criterion("ns:id", "=", a)>>), AbsentSel) :
            d \in DefIds, a \in AssetIds}

RawDefLists == SeqsUpTo(RawDefItems, MaxDefs)

\* -------------------------------------------- contract agreement listing
\* 'asset': absent, a dictionary with its '@id', or another value;
\* 'policy': absent, not a dictionary, or a dictionary whose 'target' is
\* absent, a string, or a dictionary with its '@id'
AbsentObj == [kind |-> "absent", id |-> None]
DictObj(id) == [kind |-> "dict", id |-> id]
StrObj(v) == [kind |-> "str", id |-> v]

AbsentPolicy == [kind |-> "absent", target |-> AbsentObj]
StrPolicy == [kind |-> "str", target |-> AbsentObj]
DictPolicy(target) == [kind |-> "dict", target |-> target]

RawAgr(id, assetId, asset, policy) ==
    [kind |-> "dict", id |-> id, assetId |-> assetId, asset |-> asset,
     policy |-> policy]
NonDictAgr == [kind |-> "str", id |-> None, assetId |-> None,
               asset |-> AbsentObj, policy |-> AbsentPolicy]

\* policy.get('target'), then its '@id' when it is a dictionary (407-410)
policy_target(policy) ==
    IF policy.target.kind = "absent" THEN None ELSE policy.target.id

\* A fallback that asks the nested asset object first
target_asset_id_nested_first(item) ==
    LET t1 == IF item.asset.kind = "dict" THEN item.asset.id ELSE None
        t2 == IF Falsy(t1) THEN item.assetId ELSE t1
    IN  IF Falsy(t2) /\ item.policy.kind \in {"absent", "dict"}
        THEN policy_target(item.policy) ELSE t2

\* target_asset_id (lines 397-410)
target_asset_id(item) ==
    LET t1 == item.assetId
        t2 == IF Falsy(t1) /\ item.asset.kind = "dict"
              THEN item.asset.id ELSE t1
    IN  IF Falsy(t2) /\ item.policy.kind \in {"absent", "dict"}
        THEN policy_target(item.policy) ELSE t2

ContractAgreement(item) ==
    [id |-> item.id, assetId |-> target_asset_id(item)]

RECURSIVE extract_agreements(_, _, _)
extract_agreements(items, i, acc) ==
    IF i > Len(items) THEN acc
    ELSE IF items[i].kind # "dict" \/ Falsy(items[i].id)
    THEN extract_agreements(items, i + 1, acc)
    ELSE extract_agreements(items, i + 1,
                            Append(acc, ContractAgreement(items[i])))

\* list_contract_agreements on the normalized outcome (lines 379-426)
list_contract_agreements(rd) ==
    IF rd.status = "success_json" /\ rd.data.kind = "list"
    THEN extract_agreements(rd.data.items, 1, <<>>)
    ELSE <<>>

RawAgrItems ==
    {NonDictAgr, RawAgr(None, None, AbsentObj, AbsentPolicy)}
    \cup {RawAgr(g, a, AbsentObj, AbsentPolicy) :
            g \in AgrIds, a \in AssetIds \cup {None}}
    \cup {RawAgr(g, None, DictObj(a), AbsentPolicy) :
            g \in AgrIds, a \in AssetIds}

RawAgrLists == SeqsUpTo(RawAgrItems, MaxAgrs)

\* ---------------------------------------------------- deletion executors
\* is_success of delete_asset and delete_contract_agreement
is_success(rd) ==
    \/ rd.status = "success_no_content"
    \/ rd.status = "success_json" /\ rd.status_code \in {200, 204}
    \/ rd.status = "success_non_json" /\ rd.status_code \in {200, 204}

\* delete_asset (lines 216-251): True on is_success; the 409 branch, the
\* >= 300 branch and the fallback all return False
delete_asset(rd) ==
    IF is_success(rd) THEN TRUE
    ELSE IF rd.status_code = 409 THEN FALSE
    ELSE IF rd.status_code # 0 /\ rd.status_code >= 300 THEN FALSE
    ELSE FALSE

\* A delete_contract_definition that looks at the status code alone
delete_contract_definition_codes_only(rd) ==
    rd.status_code = 200 \/ rd.status_code = 204

\* delete_contract_definition (lines 357-364)
delete_contract_definition(rd) ==
    \/ rd.status_code = 200
    \/ rd.status_code = 204
    \/ rd.status = "success_no_content"

\* A delete_contract_agreement that takes all but 405 for a success
delete_contract_agreement_unless_405(rd) == rd.status_code # 405

\* delete_contract_agreement (lines 439-462): True on is_success; the 405
\* branch and the generic branch return False
delete_contract_agreement(rd) ==
    IF is_success(rd) THEN TRUE
    ELSE IF rd.status_code = 405 THEN FALSE
    ELSE FALSE

delete(kind, rd) ==
    CASE kind = "asset"      -> delete_asset(rd)
      [] kind = "definition" -> delete_contract_definition(rd)
      [] kind = "agreement"  -> delete_contract_agreement(rd)

DeletePath(kind) ==
    CASE kind = "asset"      -> "/v3/assets/{id}"
      [] kind = "definition" -> "/v2/contractdefinitions/{id}"
      [] kind = "agreement"  -> "/v2/contractagreements/{id}"

\* -------------------------------------------------- interactive selection
\* One entry is the list of its comma separated parts, as typed
Parts == {"", " ", "A", "a", "N", "x", "0", "1", "2", "3", "9"}
Entries == SeqsUpTo(Parts, MaxParts) \ {<<>>}

\* part.strip().upper()
StripUpper(p) ==
    CASE p = " " -> ""
      [] p = "a" -> "A"
      [] p = "x" -> "X"
      [] OTHER   -> p

IsNumber(p) == p \in {"0", "1", "2", "3", "9"}

\* int(part)
int(p) ==
    CASE p = "0" -> 0
      [] p = "1" -> 1
      [] p = "2" -> 2
      [] p = "3" -> 3
      [] p = "9" -> 9

\* The loop over the parts of an entry (lines 493-513): the indices this
\* entry names, whether a valid choice was made, whether int() raised
RECURSIVE parse_parts(_, _, _, _, _)
parse_parts(parts, i, cur, valid, n) ==
    IF i > Len(parts) THEN [error |-> FALSE, cur |-> cur, valid |-> valid]
    ELSE LET part == StripUpper(parts[i]) IN
         IF part = "" THEN parse_parts(parts, i + 1, cur, valid, n)
         ELSE IF part = "A"
         THEN parse_parts(parts, i + 1, cur \cup (0 .. n - 1), TRUE, n)
         ELSE IF part = "N"
         THEN [error |-> FALSE, cur |-> {}, valid |-> TRUE]
         ELSE IF ~IsNumber(part)
         THEN [error |-> TRUE, cur |-> cur, valid |-> valid]
         ELSE IF 0 <= int(part) - 1 /\ int(part) - 1 < n
         THEN parse_parts(parts, i + 1, cur \cup {int(part) - 1}, TRUE, n)
         ELSE parse_parts(parts, i + 1, cur, valid, n)

\* An update that only ever adds to the selection
toggle_union(prior, cur) == prior \cup cur

\* The toggle of lines 515-521
toggle(prior, cur) == (prior \ cur) \cup (cur \ prior)

\* One turn of the prompt loop (lines 475-531): the selection after the
\* entry, and whether the loop ends
resolveSelection(prior, parts, n) ==
    LET choice_str == IF Len(parts) = 1 THEN StripUpper(parts[1]) ELSE ","
        parsed == parse_parts(parts, 1, {}, FALSE, n)
    IN  IF choice_str = ""
        THEN [sel |-> prior, done |-> prior # {}]
        ELSE IF choice_str = "A" THEN [sel |-> 0 .. n - 1, done |-> TRUE]
        ELSE IF choice_str = "N" THEN [sel |-> {}, done |-> TRUE]
        ELSE IF parsed.error \/ ~parsed.valid
        THEN [sel |-> prior, done |-> FALSE]
        ELSE [sel |-> toggle(prior, parsed.cur), done |-> FALSE]

\* [assets[i] for i in selected_indices]: a set is iterated in an order the
\* language does not fix
Orders(S) ==
    {f \in [1 .. Cardinality(S) -> S] :
        \A i, j \in 1 .. Cardinality(S) : i # j => f[i] # f[j]}

Picked(assets, order) == [i \in 1 .. Len(order) |-> assets[order[i] + 1]]

\* ------------------------------------------------------ the final prompt
Answers == {"yes", "YES", " yes ", "y", "no", ""}

\* confirm.strip().lower()
StripLower(a) ==
    CASE a = "YES"   -> "yes"
      [] a = " yes " -> "yes"
      [] OTHER       -> a

\* A gate that only a plain "no" closes
confirmed_unless_no(yes, answer) == yes \/ StripLower(answer) # "no"

\* The gate of lines 590-594: whether the run goes on
confirmed(yes, answer) == yes \/ StripLower(answer) = "yes"

\* ---------------------------------------------------------------- state
VARIABLES
    pc,                         \* where main() is
    env,                        \* the environment file, BASE_URL, API_KEY
    args_yes,                   \* --yes
    k,                          \* the listing strategy list_assets is at
    assets_to_list,             \* ids of the listed assets, in order
    selected_indices,           \* get_user_selection's set
    selected_assets,            \* ids of the selected assets, in order
    confirm,                    \* the answer to the final prompt
    all_contract_definitions,   \* the definitions snapshot
    all_contract_agreements,    \* the agreements snapshot
    counts,                     \* the six counters
    asset_i,                    \* the selected asset being processed
    phase,                      \* "defs", "agrs" or "asset"
    idx,                        \* position in the snapshot being scanned
    result,                     \* what the last delete returned
    log,                        \* history: the requests sent, in order
    false_returns,              \* history: the deletes that returned False
    exit_code,                  \* "none" while running, then "0" or "1"
    server,                     \* the entities the connector holds
    gone,                       \* history: the entities a DELETE removed
    call,                       \* the last direct call of an executor
    raw,                        \* the array an extractor is applied to
    listed,                     \* what the extractor made of it
    entry                       \* history: the last entry at the prompt

runVars == <<pc, env, args_yes, k, assets_to_list, selected_indices,
             selected_assets, confirm, all_contract_definitions,
             all_contract_agreements, counts, asset_i, phase, idx, result,
             log, false_returns, exit_code>>
execVars == <<server, gone, call, raw, listed, entry>>
vars == <<runVars, execVars>>

\* A request as the history keeps it: `array` tells whether the answer was
\* a 2xx response carrying a JSON array, `ids` the '@id's of that array
\* (asset listings only), `owner` the selected asset being processed
Request(method, path, id, array, ids, owner) ==
    [method |-> method, path |-> path, id |-> id, array |-> array,
     ids |-> ids, owner |-> owner]

HasArray(r) ==
    ~r.exc /\ 200 <= r.code /\ r.code < 300 /\ r.body.kind = "list"

IdsOf(items) ==
    {items[i].id : i \in {j \in 1 .. Len(items) :
                            items[j].kind = "dict" /\ ~Falsy(items[j].id)}}

ZeroCounts ==
    [deleted_assets_count |-> 0, failed_assets_count |-> 0,
     deleted_cds_count |-> 0, failed_cds_count |-> 0,
     deleted_cas_count |-> 0, failed_cas_count |-> 0]

NoOutcome == [status |-> "none", status_code |-> 0,
              data |-> NoData, content |-> EmptyBody]

NoCall == [kind |-> "none", id |-> None, present |-> FALSE,
           response |-> TransportException, outcome |-> NoOutcome,
           returned |-> FALSE]

NoInput == [extractor |-> "none", strategy |-> 0, items |-> <<>>]
NotListed == [done |-> FALSE, raised |-> FALSE, entities |-> <<>>]
NoEntry == [parts |-> <<>>, prior |-> {}, done |-> FALSE]

Init ==
    /\ pc = "start"
    /\ env \in [file : BOOLEAN, base_url : BOOLEAN, api_key : BOOLEAN]
    /\ args_yes \in BOOLEAN
    /\ k = 1
    /\ assets_to_list = <<>>
    /\ selected_indices = {}
    /\ selected_assets = <<>>
    /\ confirm = None
    /\ all_contract_definitions = <<>>
    /\ all_contract_agreements = <<>>
    /\ counts = ZeroCounts
    /\ asset_i = 0
    /\ phase = "none"
    /\ idx = 0
    /\ result = FALSE
    /\ log = <<>>
    /\ false_returns = 0
    /\ exit_code = "none"
    /\ server = {}
    /\ gone = {}
    /\ call = NoCall
    /\ raw = NoInput
    /\ listed = NotListed
    /\ entry = NoEntry

\* ------------------------------------------------------------- main()
Ends(code) == pc' = "done" /\ exit_code' = code

Sent(method, path, id, array, ids, owner) ==
    log' = Append(log, Request(method, path, id, array, ids, owner))

\* A check that forgets the API key
config_ok_without_key(e) == e.file /\ e.base_url

\* Lines 554-573: a missing environment file, BASE_URL or API_KEY is fatal
config_ok(e) == e.file /\ e.base_url /\ e.api_key

LoadConfig ==
    /\ pc = "start"
    /\ IF config_ok(env)
       THEN pc' = "list_assets" /\ exit_code' = exit_code
       ELSE Ends("1")
    /\ UNCHANGED <<env, args_yes, k, assets_to_list, selected_indices,
                   selected_assets, confirm, all_contract_definitions,
                   all_contract_agreements, counts, asset_i, phase, idx,
                   result, log, false_returns>>
    /\ UNCHANGED execVars

\* A strategy that returns only when its list is not empty
returns_nonempty(lst) == lst # NoData /\ lst.items # <<>>

\* Line 96 (and 141, 177, 196): the strategy returns when it has a list
returns_assets(lst) == lst # NoData

\* What strategy k makes of a response
AssetListing(kk, r) ==
    LET lst == actual_asset_list(kk, send_request(r))
    IN  [array |-> HasArray(r),
         ids |-> IF HasArray(r) THEN IdsOf(r.body.items) ELSE {},
         returns |-> returns_assets(lst),
         ex |-> extract_assets(kk, lst.items, 1, <<>>)]

\* One strategy of list_assets (lines 75-202) and, when list_assets
\* returns, lines 575-578 of main
ListAssets ==
    /\ pc = "list_assets"
    /\ \E o \in {AssetListing(k, r) : r \in ResponsesWith(RawAssetLists)} :
        /\ Sent(Strategies[k].method, Strategies[k].path, None,
                o.array, o.ids, 0)
        /\ IF o.returns
           THEN IF o.ex.raised
                THEN Ends("1") /\ UNCHANGED <<k, assets_to_list>>
                ELSE /\ assets_to_list' = o.ex.assets
                     /\ k' = k
                     /\ IF o.ex.assets = <<>>
                        THEN Ends("0")
                        ELSE pc' = "select" /\ exit_code' = exit_code
           ELSE CASE NoUsableList(k) = "list" ->
                       /\ k' = k + 1
                       /\ UNCHANGED <<pc, exit_code, assets_to_list>>
                  [] NoUsableList(k) = "empty" ->
                       /\ assets_to_list' = <<>>
                       /\ Ends("0")
                       /\ k' = k
                  [] OTHER ->
                       Ends("1") /\ UNCHANGED <<k, assets_to_list>>
    /\ UNCHANGED <<env, args_yes, selected_indices, selected_assets, confirm,
                   all_contract_definitions, all_contract_agreements, counts,
                   asset_i, phase, idx, result, false_returns>>
    /\ UNCHANGED execVars

\* get_user_selection returned `chosen`: lines 582-590 of main
AfterSelection(chosen) ==
    /\ selected_assets' = chosen
    /\ IF chosen = <<>> THEN Ends("0")
       ELSE /\ exit_code' = exit_code
            /\ pc' = IF args_yes THEN "list_defs" ELSE "confirm"

\* What the prompt loop does with one entry (lines 474-531), and the
\* return of line 536 when the entry ends it
Prompt(parts) ==
    LET r == resolveSelection(selected_indices, parts, Len(assets_to_list))
    IN  /\ selected_indices' = r.sel
        /\ IF r.done
           THEN \E order \in Orders(r.sel) :
                    AfterSelection(Picked(assets_to_list, order))
           ELSE UNCHANGED <<pc, exit_code, selected_assets>>

\* One entry at the selection prompt (lines 474-531, 536)
SelectEntry ==
    /\ pc = "select"
    /\ \E parts \in Entries : Prompt(parts)
    /\ UNCHANGED <<env, args_yes, k, assets_to_list, confirm,
                   all_contract_definitions, all_contract_agreements, counts,
                   asset_i, phase, idx, result, log, false_returns>>
    /\ UNCHANGED execVars

\* KeyboardInterrupt at the selection prompt (lines 532-534)
SelectInterrupt ==
    /\ pc = "select"
    /\ AfterSelection(<<>>)
    /\ UNCHANGED <<env, args_yes, k, assets_to_list, selected_indices,
                   confirm, all_contract_definitions,
                   all_contract_agreements, counts, asset_i, phase, idx,
                   result, log, false_returns>>
    /\ UNCHANGED execVars

\* The final prompt (lines 590-594)
Confirm ==
    /\ pc = "confirm"
    /\ \E answer \in Answers :
        /\ confirm' = answer
        /\ IF confirmed(args_yes, answer)
           THEN pc' = "list_defs" /\ exit_code' = exit_code
           ELSE Ends("0")
    /\ UNCHANGED <<env, args_yes, k, assets_to_list, selected_indices,
                   selected_assets, all_contract_definitions,
                   all_contract_agreements, counts, asset_i, phase, idx,
                   result, log, false_returns>>
    /\ UNCHANGED execVars

\* Lines 596-600: the definitions snapshot
ListDefinitions ==
    /\ pc = "list_defs"
    /\ \E o \in {[defs |-> list_contract_definitions(send_request(r)),
                  array |-> HasArray(r)] : r \in ResponsesWith(RawDefLists)} :
        /\ all_contract_definitions' = o.defs
        /\ Sent("POST", "/v2/contractdefinitions/request", None,
                o.array, {}, 0)
        /\ pc' = IF o.defs # <<>> THEN "raw_def" ELSE "list_agrs"
    /\ UNCHANGED <<env, args_yes, k, assets_to_list, selected_indices,
                   selected_assets, confirm, all_contract_agreements, counts,
                   asset_i, phase, idx, result, false_returns, exit_code>>
    /\ UNCHANGED execVars

\* Lines 601-608: the diagnostic GET of the first definition; whatever the
\* answer, it is only logged
GetRawDefinition ==
    /\ pc = "raw_def"
    /\ Sent("GET", "/v2/contractdefinitions/{id}",
            all_contract_definitions[1].id, FALSE, {}, 0)
    /\ pc' = "list_agrs"
    /\ UNCHANGED <<env, args_yes, k, assets_to_list, selected_indices,
                   selected_assets, confirm, all_contract_definitions,
                   all_contract_agreements, counts, asset_i, phase, idx,
                   result, false_returns, exit_code>>
    /\ UNCHANGED execVars

\* Lines 611-629: the agreements snapshot, the counters, the first asset
ListAgreements ==
    /\ pc = "list_agrs"
    /\ \E o \in {[agrs |-> list_contract_agreements(send_request(r)),
                  array |-> HasArray(r)] : r \in ResponsesWith(RawAgrLists)} :
        /\ all_contract_agreements' = o.agrs
        /\ Sent("POST", "/v2/contractagreements/request", None,
                o.array, {}, 0)
    /\ counts' = ZeroCounts
    /\ asset_i' = 1
    /\ phase' = "defs"
    /\ idx' = 1
    /\ pc' = "cascade"
    /\ UNCHANGED <<env, args_yes, k, assets_to_list, selected_indices,
                   selected_assets, confirm, all_contract_definitions,
                   result, false_returns, exit_code>>
    /\ UNCHANGED execVars

\* --------------------------------------------------------- the cascade
\* Dependents taken without comparing the target with the asset
cd_matches_every(cd, aid) == TRUE
ca_matches_any_target(ca, aid) == ~Falsy(ca.assetId)

\* An agreement with no target taken for a dependent of every asset
ca_matches_or_absent(ca, aid) == ca.assetId = aid \/ Falsy(ca.assetId)

\* Lines 637 and 654: the dependents of an asset
cd_matches(cd, aid) == cd.assetsSelectorTarget = aid
ca_matches(ca, aid) == ca.assetId = aid

Least(S) == CHOOSE x \in S : \A y \in S : x <= y

\* The next definition / agreement of the snapshot, from position `from`
\* on, that the loops of lines 636 and 651 delete; 0 when there is none
next_definition(from, aid) ==
    LET S == {j \in from .. Len(all_contract_definitions) :
                cd_matches(all_contract_definitions[j], aid)}
    IN  IF S = {} THEN 0 ELSE Least(S)

next_agreement(from, aid) ==
    LET S == {j \in from .. Len(all_contract_agreements) :
                ca_matches(all_contract_agreements[j], aid)}
    IN  IF S = {} THEN 0 ELSE Least(S)

\* A tally that books a failed definition delete on the assets
tally_failed_definition_as_asset(c, kind, ok) ==
    CASE kind = "definition" /\ ok ->
            [c EXCEPT !.deleted_cds_count = @ + 1]
      [] kind = "agreement" /\ ok ->
            [c EXCEPT !.deleted_cas_count = @ + 1]
      [] kind = "agreement" /\ ~ok ->
            [c EXCEPT !.failed_cas_count = @ + 1]
      [] kind = "asset" /\ ok ->
            [c EXCEPT !.deleted_assets_count = @ + 1]
      [] OTHER ->
            [c EXCEPT !.failed_assets_count = @ + 1]

\* Lines 640-643, 657-660, 668-671: one counter goes up by one
tally(c, kind, ok) ==
    CASE kind = "definition" /\ ok ->
            [c EXCEPT !.deleted_cds_count = @ + 1]
      [] kind = "definition" /\ ~ok ->
            [c EXCEPT !.failed_cds_count = @ + 1]
      [] kind = "agreement" /\ ok ->
            [c EXCEPT !.deleted_cas_count = @ + 1]
      [] kind = "agreement" /\ ~ok ->
            [c EXCEPT !.failed_cas_count = @ + 1]
      [] kind = "asset" /\ ok ->
            [c EXCEPT !.deleted_assets_count = @ + 1]
      [] kind = "asset" /\ ~ok ->
            [c EXCEPT !.failed_assets_count = @ + 1]

\* A cascade that a failed delete ends
stops_on_failure(ok) == ok

\* Neither branch of lines 640-644, 657-662 and 668-671 leaves its loop:
\* the cascade goes on whatever the delete returned
goes_on(ok) == TRUE

asset_id == selected_assets[asset_i]

\* A loop that drops from its list the entity it has just deleted
snapshot_without_deleted(snapshot, j, ok) ==
    IF ok
    THEN [i \in 1 .. Len(snapshot) - 1 |->
             IF i < j THEN snapshot[i] ELSE snapshot[i + 1]]
    ELSE snapshot

\* The loops of lines 636 and 651 read the list they iterate and never
\* write it: the snapshot after the delete of its j-th entity
snapshot_after_delete(snapshot, j, ok) == snapshot

\* One DELETE of the kind, through its executor, and the tally of it
Delete(kind, id) ==
    \E ok \in {delete(kind, send_request(r)) : r \in PlainResponses} :
        /\ Sent("DELETE", DeletePath(kind), id, FALSE, {}, asset_i)
        /\ result' = ok
        /\ false_returns' = IF ok THEN false_returns ELSE false_returns + 1
        /\ counts' = tally(counts, kind, ok)

\* Lines 636-644: the next dependent contract definition
DeleteDefinition ==
    /\ pc = "cascade" /\ phase = "defs"
    /\ next_definition(idx, asset_id) # 0
    /\ Delete("definition",
              all_contract_definitions[next_definition(idx, asset_id)].id)
    /\ idx' = next_definition(idx, asset_id) + 1
    /\ all_contract_definitions' =
          snapshot_after_delete(all_contract_definitions,
                                next_definition(idx, asset_id), result')
    /\ pc' = IF goes_on(result') THEN pc ELSE "summary"
    /\ UNCHANGED <<env, args_yes, k, assets_to_list, selected_indices,
                   selected_assets, confirm, all_contract_agreements,
                   asset_i, phase, exit_code>>
    /\ UNCHANGED execVars

\* Lines 645-650: no further definition targets the asset
DefinitionsScanned ==
    /\ pc = "cascade" /\ phase = "defs"
    /\ next_definition(idx, asset_id) = 0
    /\ phase' = "agrs"
    /\ idx' = 1
    /\ UNCHANGED <<pc, env, args_yes, k, assets_to_list, selected_indices,
                   selected_assets, confirm, all_contract_definitions,
                   all_contract_agreements, counts, asset_i, result, log,
                   false_returns, exit_code>>
    /\ UNCHANGED execVars

\* Lines 651-662: the next dependent contract agreement
DeleteAgreement ==
    /\ pc = "cascade" /\ phase = "agrs"
    /\ next_agreement(idx, asset_id) # 0
    /\ Delete("agreement",
              all_contract_agreements[next_agreement(idx, asset_id)].id)
    /\ idx' = next_agreement(idx, asset_id) + 1
    /\ all_contract_agreements' =
          snapshot_after_delete(all_contract_agreements,
                                next_agreement(idx, asset_id), result')
    /\ pc' = IF goes_on(result') THEN pc ELSE "summary"
    /\ UNCHANGED <<env, args_yes, k, assets_to_list, selected_indices,
                   selected_assets, confirm, all_contract_definitions,
                   asset_i, phase, exit_code>>
    /\ UNCHANGED execVars

\* Lines 663-667: no further agreement references the asset
AgreementsScanned ==
    /\ pc = "cascade" /\ phase = "agrs"
    /\ next_agreement(idx, asset_id) = 0
    /\ phase' = "asset"
    /\ idx' = 0
    /\ UNCHANGED <<pc, env, args_yes, k, assets_to_list, selected_indices,
                   selected_assets, confirm, all_contract_definitions,
                   all_contract_agreements, counts, asset_i, result, log,
                   false_returns, exit_code>>
    /\ UNCHANGED execVars

\* Lines 668-671, and the step of the loop of line 629 to the next asset
DeleteAsset ==
    /\ pc = "cascade" /\ phase = "asset"
    /\ Delete("asset", asset_id)
    /\ IF goes_on(result') /\ asset_i < Len(selected_assets)
       THEN /\ asset_i' = asset_i + 1
            /\ phase' = "defs"
            /\ idx' = 1
            /\ pc' = pc
       ELSE /\ pc' = "summary"
            /\ UNCHANGED <<asset_i, phase, idx>>
    /\ UNCHANGED <<env, args_yes, k, assets_to_list, selected_indices,
                   selected_assets, confirm, all_contract_definitions,
                   all_contract_agreements, exit_code>>
    /\ UNCHANGED execVars

\* Lines 673-686: the summary, and the normal end of main
Summary ==
    /\ pc = "summary"
    /\ Ends("0")
    /\ UNCHANGED <<env, args_yes, k, assets_to_list, selected_indices,
                   selected_assets, confirm, all_contract_definitions,
                   all_contract_agreements, counts, asset_i, phase, idx,
                   result, log, false_returns>>
    /\ UNCHANGED execVars

Next ==
    \/ LoadConfig
    \/ ListAssets
    \/ SelectEntry
    \/ SelectInterrupt
    \/ Confirm
    \/ ListDefinitions
    \/ GetRawDefinition
    \/ ListAgreements
    \/ DeleteDefinition
    \/ DefinitionsScanned
    \/ DeleteAgreement
    \/ AgreementsScanned
    \/ DeleteAsset
    \/ Summary

\* A whole run of main()
Spec == Init /\ [][Next]_vars

\* ------------------------------------------- the cascade on its inputs
\* The cascade of lines 622-686 as a function of what it is given: the
\* selected assets and the two snapshots.  The state is that of a run with
\* --yes in which GET /v3/assets listed the assets and all were selected.
SelectedLists == SeqsUpTo(AssetIds, MaxSelected) \ {<<>>}
DefinitionSnapshots ==
    {extract_definitions(l, 1, <<>>) : l \in RawDefLists}
AgreementSnapshots ==
    {extract_agreements(l, 1, <<>>) : l \in RawAgrLists}

LogBeforeCascade(sel, defs) ==
    <<Request("GET", "/v3/assets", None, TRUE,
              {sel[i] : i \in 1 .. Len(sel)}, 0),
      Request("POST", "/v2/contractdefinitions/request", None, TRUE, {}, 0)>>
    \o (IF defs = <<>> THEN <<>>
        ELSE <<Request("GET", "/v2/contractdefinitions/{id}", defs[1].id,
                       FALSE, {}, 0)>>)
    \o <<Request("POST", "/v2/contractagreements/request", None, TRUE,
                 {}, 0)>>

InitCascade ==
    /\ pc = "cascade"
    /\ env = [file |-> TRUE, base_url |-> TRUE, api_key |-> TRUE]
    /\ args_yes = TRUE
    /\ k = 1
    /\ selected_assets \in SelectedLists
    /\ assets_to_list = selected_assets
    /\ selected_indices = 0 .. Len(selected_assets) - 1
    /\ confirm = None
    /\ all_contract_definitions \in DefinitionSnapshots
    /\ all_contract_agreements \in AgreementSnapshots
    /\ counts = ZeroCounts
    /\ asset_i = 1
    /\ phase = "defs"
    /\ idx = 1
    /\ result = FALSE
    /\ log = LogBeforeCascade(selected_assets, all_contract_definitions)
    /\ false_returns = 0
    /\ exit_code = "none"
    /\ server = {}
    /\ gone = {}
    /\ call = NoCall
    /\ raw = NoInput
    /\ listed = NotListed
    /\ entry = NoEntry

NextCascade ==
    \/ DeleteDefinition
    \/ DefinitionsScanned
    \/ DeleteAgreement
    \/ AgreementsScanned
    \/ DeleteAsset
    \/ Summary

SpecCascade == InitCascade /\ [][NextCascade]_vars

\* -------------------------------------- the executors, called directly
\* The connector as the executors see it: a DELETE of an entity it does
\* not hold is answered with a non-2xx status (or not at all) and changes
\* nothing; a DELETE answered 2xx has removed the entity.
Entity(kind, id) == [kind |-> kind, id |-> id]
Entities ==
    {Entity("asset", a) : a \in AssetIds}
    \cup {Entity("definition", d) : d \in DefIds}
    \cup {Entity("agreement", g) : g \in AgrIds}

Is2xx(r) == ~r.exc /\ 200 <= r.code /\ r.code < 300

ServerAnswers(e, srv) ==
    IF e \in srv THEN PlainResponses
    ELSE {r \in PlainResponses : ~Is2xx(r)}

ServerAfter(e, srv, r) == IF Is2xx(r) THEN srv \ {e} ELSE srv

InitExec ==
    /\ pc = "api"
    /\ env = [file |-> TRUE, base_url |-> TRUE, api_key |-> TRUE]
    /\ args_yes = TRUE
    /\ k = 1
    /\ assets_to_list = <<>>
    /\ selected_indices = {}
    /\ selected_assets = <<>>
    /\ confirm = None
    /\ all_contract_definitions = <<>>
    /\ all_contract_agreements = <<>>
    /\ counts = ZeroCounts
    /\ asset_i = 0
    /\ phase = "none"
    /\ idx = 0
    /\ result = FALSE
    /\ log = <<>>
    /\ false_returns = 0
    /\ exit_code = "none"
    /\ server \in SUBSET Entities
    /\ gone = {}
    /\ call = NoCall
    /\ raw = NoInput
    /\ listed = NotListed
    /\ entry = NoEntry

\* delete_asset, delete_contract_definition or delete_contract_agreement
\* called on an identifier (lines 204-251, 346-364, 428-462)
ExecDelete ==
    /\ pc = "api"
    /\ \E e \in Entities : \E r \in ServerAnswers(e, server) :
        /\ call' = [kind |-> e.kind, id |-> e.id, present |-> e \in server,
                    response |-> r, outcome |-> send_request(r),
                    returned |-> delete(e.kind, send_request(r))]
        /\ server' = ServerAfter(e, server, r)
        /\ gone' = gone \cup (server \ ServerAfter(e, server, r))
    /\ UNCHANGED <<raw, listed, entry>>
    /\ UNCHANGED runVars

NextExec == ExecDelete

SpecExec == InitExec /\ [][NextExec]_vars

\* ------------------------------------- the selection prompt, on a list
\* get_user_selection on a list of assets, each entry kept with the
\* selection it was typed on (--yes: the run stops after the prompt here)
\* The lists the prompt is shown, one of each length, and the entries
\* typed: numbers, A, a, N and a word, alone or comma separated
PromptLists ==
    {[i \in 1 .. n |-> IF i % 2 = 1 THEN "a1" ELSE "a2"] :
        n \in 1 .. MaxSelected}
PromptEntries ==
    SeqsUpTo({"1", "2", "3", "A", "a", "N", "x"}, MaxParts) \ {<<>>}

InitSelect ==
    /\ pc = "select"
    /\ env = [file |-> TRUE, base_url |-> TRUE, api_key |-> TRUE]
    /\ args_yes = TRUE
    /\ k = 1
    /\ assets_to_list \in PromptLists
    /\ selected_indices = {}
    /\ selected_assets = <<>>
    /\ confirm = None
    /\ all_contract_definitions = <<>>
    /\ all_contract_agreements = <<>>
    /\ counts = ZeroCounts
    /\ asset_i = 0
    /\ phase = "none"
    /\ idx = 0
    /\ result = FALSE
    /\ log = <<Request("GET", "/v3/assets", None, TRUE,
                       {assets_to_list[i] : i \in 1 .. Len(assets_to_list)},
                       0)>>
    /\ false_returns = 0
    /\ exit_code = "none"
    /\ server = {}
    /\ gone = {}
    /\ call = NoCall
    /\ raw = NoInput
    /\ listed = NotListed
    /\ entry = NoEntry

\* One entry at the selection prompt (lines 474-531, 536), remembered
EnterSelection ==
    /\ pc = "select"
    /\ \E parts \in PromptEntries :
        /\ Prompt(parts)
        /\ entry' = [parts |-> parts, prior |-> selected_indices,
                     done |-> pc' # "select"]
    /\ UNCHANGED <<env, args_yes, k, assets_to_list, confirm,
                   all_contract_definitions, all_contract_agreements, counts,
                   asset_i, phase, idx, result, log, false_returns>>
    /\ UNCHANGED <<server, gone, call, raw, listed>>

NextSelect ==
    \/ EnterSelection
    \/ SelectInterrupt

SpecSelect == InitSelect /\ [][NextSelect]_vars

\* ---------------------------------- the extractors, on a listed array
\* The three listings on a 200 response that carries a JSON array: the
\* arrays of the run, longer ones, and single definitions and agreements
\* in every shape the extractors look at.
OperandLefts == EdcIdOperands \cup {"name"}
Operators == {"=", "in"}
OperandRights == AssetIds \cup {None, ""}

Criteria ==
    {Criterion(l, o, r) :
        l \in OperandLefts, o \in Operators, r \in OperandRights}
NonDictCriterion ==
    [kind |-> "str", operandLeft |-> None, operator |-> None,
     operandRight |-> None]

CriteriaLists == SeqsUpTo(Criteria \cup {NonDictCriterion}, MaxCriteria)

Selectors ==
    {AbsentSel, OtherSel}
    \cup {DictSel(c) : c \in Criteria}
    \cup {ListSel(cs) : cs \in CriteriaLists}

ShapedDefItems ==
    {RawDef(d, sel, AbsentSel) : d \in DefIds, sel \in Selectors}
    \cup {RawDef(d, sel, legacy) :
            d \in DefIds, sel \in {AbsentSel, OtherSel}, legacy \in Selectors}
    \cup {RawDef(d, DictSel(c1), DictSel(c2)) :
            d \in DefIds, c1 \in Criteria, c2 \in Criteria}

AssetObjects ==
    {AbsentObj, StrObj("a1")} \cup {DictObj(a) : a \in AssetIds \cup {None}}
PolicyTargets ==
    {AbsentObj} \cup {StrObj(a) : a \in AssetIds \cup {""}}
    \cup {DictObj(a) : a \in AssetIds \cup {None}}
Policies ==
    {AbsentPolicy, StrPolicy} \cup {DictPolicy(t) : t \in PolicyTargets}

ShapedAgrItems ==
    {RawAgr(g, a, asset, policy) :
        g \in AgrIds, a \in AssetIds \cup {None, ""},
        asset \in AssetObjects, policy \in Policies}

ExtractorInputs ==
    {[extractor |-> "assets", strategy |-> s, items |-> l] :
        s \in 1 .. 4, l \in SeqsUpTo(RawAssetItems, MaxItems)}
    \cup {[extractor |-> "definitions", strategy |-> 0, items |-> l] :
            l \in SeqsUpTo(RawDefItems, MaxItems)
                    \cup {<<item>> : item \in ShapedDefItems}}
    \cup {[extractor |-> "agreements", strategy |-> 0, items |-> l] :
            l \in SeqsUpTo(RawAgrItems, MaxItems)
                    \cup {<<item>> : item \in ShapedAgrItems}}

InitExtract ==
    /\ pc = "extract"
    /\ env = [file |-> TRUE, base_url |-> TRUE, api_key |-> TRUE]
    /\ args_yes = TRUE
    /\ k = 1
    /\ assets_to_list = <<>>
    /\ selected_indices = {}
    /\ selected_assets = <<>>
    /\ confirm = None
    /\ all_contract_definitions = <<>>
    /\ all_contract_agreements = <<>>
    /\ counts = ZeroCounts
    /\ asset_i = 0
    /\ phase = "none"
    /\ idx = 0
    /\ result = FALSE
    /\ log = <<>>
    /\ false_returns = 0
    /\ exit_code = "none"
    /\ server = {}
    /\ gone = {}
    /\ call = NoCall
    /\ raw \in ExtractorInputs
    /\ listed = NotListed
    /\ entry = NoEntry

Listed200(items) == Response(200, ListBody(items))

\* Strategy raw.strategy of list_assets on the array (lines 96-120,
\* 141-156, 177-180, 196-199)
ExtractAssets ==
    /\ pc = "extract"
    /\ raw.extractor = "assets"
    /\ LET o == AssetListing(raw.strategy, Listed200(raw.items))
       IN  listed' = [done |-> TRUE, raised |-> o.ex.raised,
                      entities |-> o.ex.assets]
    /\ pc' = "extracted"
    /\ UNCHANGED <<env, args_yes, k, assets_to_list, selected_indices,
                   selected_assets, confirm, all_contract_definitions,
                   all_contract_agreements, counts, asset_i, phase, idx,
                   result, log, false_returns, exit_code>>
    /\ UNCHANGED <<server, gone, call, raw, entry>>

\* list_contract_definitions on the array (lines 273-319)
ExtractDefinitions ==
    /\ pc = "extract"
    /\ raw.extractor = "definitions"
    /\ listed' = [done |-> TRUE, raised |-> FALSE,
                  entities |-> list_contract_definitions(
                                  send_request(Listed200(raw.items)))]
    /\ pc' = "extracted"
    /\ UNCHANGED <<env, args_yes, k, assets_to_list, selected_indices,
                   selected_assets, confirm, all_contract_definitions,
                   all_contract_agreements, counts, asset_i, phase, idx,
                   result, log, false_returns, exit_code>>
    /\ UNCHANGED <<server, gone, call, raw, entry>>

\* list_contract_agreements on the array (lines 385-420)
ExtractAgreements ==
    /\ pc = "extract"
    /\ raw.extractor = "agreements"
    /\ listed' = [done |-> TRUE, raised |-> FALSE,
                  entities |-> list_contract_agreements(
                                  send_request(Listed200(raw.items)))]
    /\ pc' = "extracted"
    /\ UNCHANGED <<env, args_yes, k, assets_to_list, selected_indices,
                   selected_assets, confirm, all_contract_definitions,
                   all_contract_agreements, counts, asset_i, phase, idx,
                   result, log, false_returns, exit_code>>
    /\ UNCHANGED <<server, gone, call, raw, entry>>

NextExtract ==
    \/ ExtractAssets
    \/ ExtractDefinitions
    \/ ExtractAgreements

SpecExtract == InitExtract /\ [][NextExtract]_vars

\* =================================================================
\* The claims
\* =================================================================
AssetPath == "/v3/assets/{id}"
DefinitionPath == "/v2/contractdefinitions/{id}"
AgreementPath == "/v2/contractagreements/{id}"

IsDelete(e) == e.method = "DELETE"
Deletes == SelectSeq(log, IsDelete)
SelectedIds == {selected_assets[i] : i \in 1 .. Len(selected_assets)}

\* The order of a DELETE within the cascade of one asset
Rank(e) ==
    CASE e.path = DefinitionPath -> 1
      [] e.path = AgreementPath  -> 2
      [] e.path = AssetPath      -> 3

\* C1: for every selected asset the DELETEs go definitions, then
\* agreements, then the asset, and no DELETE of a dependent of an asset is
\* ever issued after the DELETE of that asset.
C1_DependentsBeforeAsset ==
    /\ \A i, j \in 1 .. Len(Deletes) :
          i < j /\ Deletes[i].owner = Deletes[j].owner
              => Rank(Deletes[i]) <= Rank(Deletes[j])
    /\ \A i, j \in 1 .. Len(Deletes) :
          i < j /\ Deletes[i].path = AssetPath
                /\ Deletes[j].path # AssetPath
              => selected_assets[Deletes[j].owner] # Deletes[i].id

\* C2: every DELETE targets a selected asset, or a definition / agreement
\* of the snapshot whose target is the selected asset being processed;
\* nothing else is ever sent a DELETE.
C2_OnlySelectedAndDependents ==
    \A i \in 1 .. Len(Deletes) :
        LET e == Deletes[i] IN
        /\ e.owner \in 1 .. Len(selected_assets)
        /\ \/ e.path = AssetPath /\ e.id = selected_assets[e.owner]
           \/ /\ e.path = DefinitionPath
              /\ \E j \in 1 .. Len(all_contract_definitions) :
                    /\ all_contract_definitions[j].id = e.id
                    /\ all_contract_definitions[j].assetsSelectorTarget
                          = selected_assets[e.owner]
           \/ /\ e.path = AgreementPath
              /\ \E j \in 1 .. Len(all_contract_agreements) :
                    /\ all_contract_agreements[j].id = e.id
                    /\ all_contract_agreements[j].assetId
                          = selected_assets[e.owner]

\* A finished run that deleted an asset and an agreement of it and left
\* alone the definition that targets an asset that was not selected
C2_Witness ==
    /\ pc = "done"
    /\ \E d \in 1 .. Len(all_contract_definitions) :
          /\ all_contract_definitions[d].assetsSelectorTarget \in AssetIds
          /\ all_contract_definitions[d].assetsSelectorTarget
                \notin SelectedIds
    /\ \E i \in 1 .. Len(Deletes) : Deletes[i].path = AgreementPath
    /\ \E i \in 1 .. Len(Deletes) : Deletes[i].path = AssetPath

\* The DELETEs the snapshots prescribe for the i-th selected asset
PlanFor(i) ==
    LET aid == selected_assets[i]
        ds == SelectSeq(all_contract_definitions,
                        LAMBDA d : d.assetsSelectorTarget = aid)
        gs == SelectSeq(all_contract_agreements,
                        LAMBDA g : g.assetId = aid)
    IN  [j \in 1 .. Len(ds) |-> <<DefinitionPath, ds[j].id, i>>]
        \o [j \in 1 .. Len(gs) |-> <<AgreementPath, gs[j].id, i>>]
        \o << <<AssetPath, aid, i>> >>

RECURSIVE PlanUpTo(_)
PlanUpTo(n) == IF n = 0 THEN <<>> ELSE PlanUpTo(n - 1) \o PlanFor(n)
Plan == PlanUpTo(Len(selected_assets))

Issued == [j \in 1 .. Len(Deletes) |->
              <<Deletes[j].path, Deletes[j].id, Deletes[j].owner>>]

IsPrefix(s, t) ==
    Len(s) <= Len(t) /\ \A i \in 1 .. Len(s) : s[i] = t[i]

\* C3: a failed deletion never halts the cascade: whatever the deletes
\* return, the DELETEs issued are those the snapshots prescribe, one
\* delete_asset attempt for every selected asset, and the run ends only
\* when all of them have been attempted.
C3_FailuresNeverHalt ==
    /\ IsPrefix(Issued, Plan)
    /\ pc \in {"summary", "done"} =>
          /\ Issued = Plan
          /\ \A i \in 1 .. Len(selected_assets) :
                Cardinality({j \in 1 .. Len(Deletes) :
                                /\ Deletes[j].path = AssetPath
                                /\ Deletes[j].owner = i}) = 1

\* A finished run of two assets in which a definition delete and an asset
\* delete failed and every prescribed DELETE was still attempted
C3_Witness ==
    /\ pc = "done"
    /\ Len(selected_assets) = 2
    /\ counts.failed_cds_count > 0
    /\ counts.failed_assets_count > 0
    /\ Issued = Plan
    /\ Len(Issued) > 3

Attempts(path) ==
    Cardinality({i \in 1 .. Len(Deletes) : Deletes[i].path = path})

CounterOf(path, ok) ==
    CASE path = AssetPath /\ ok       -> "deleted_assets_count"
      [] path = AssetPath /\ ~ok      -> "failed_assets_count"
      [] path = DefinitionPath /\ ok  -> "deleted_cds_count"
      [] path = DefinitionPath /\ ~ok -> "failed_cds_count"
      [] path = AgreementPath /\ ok   -> "deleted_cas_count"
      [] path = AgreementPath /\ ~ok  -> "failed_cas_count"

CountsMatchAttempts ==
    /\ counts.deleted_assets_count + counts.failed_assets_count
          = Attempts(AssetPath)
    /\ counts.deleted_cds_count + counts.failed_cds_count
          = Attempts(DefinitionPath)
    /\ counts.deleted_cas_count + counts.failed_cas_count
          = Attempts(AgreementPath)
    /\ counts.failed_assets_count + counts.failed_cds_count
          + counts.failed_cas_count = false_returns
    /\ pc = "done" =>
          counts.deleted_assets_count + counts.failed_assets_count
              = Len(selected_assets)

CountedOnce ==
    IF Len(log') = Len(log) + 1 /\ IsDelete(log'[Len(log')])
    THEN counts' = [counts EXCEPT
                       ![CounterOf(log'[Len(log')].path, result')] = @ + 1]
    ELSE counts' = counts

\* C4: every delete attempt raises the deleted counter of its kind by one
\* when the executor returned true and the failed counter of its kind by
\* one when it returned false, nothing else changes a counter, and so
\* deleted + failed is the number of attempts of each kind, for assets the
\* number of selected assets at the end of the run.
C4_CountersAccountForAttempts ==
    [](CountsMatchAttempts) /\ [][CountedOnce]_vars

\* A finished run with one asset deleted, one failed, a definition
\* deleted and an agreement failed
C4_Witness ==
    /\ pc = "done"
    /\ counts.deleted_assets_count = 1
    /\ counts.failed_assets_count = 1
    /\ counts.deleted_cds_count = 1
    /\ counts.failed_cas_count = 1

\* The asset listing requests, in the order they were sent
AssetListPaths ==
    {"/v3/assets", "/v3/assets/request", "/v2/assets/request", "/v2/assets"}
IsAssetListing(e) == e.path \in AssetListPaths
Listings == SelectSeq(log, IsAssetListing)

FixedOrder == <<<<"GET", "/v3/assets">>, <<"POST", "/v3/assets/request">>,
                <<"POST", "/v2/assets/request">>, <<"GET", "/v2/assets">>>>

NoArrayYet == \A i \in 1 .. Len(Listings) : ~Listings[i].array

\* C5: list_assets tries GET /v3/assets, POST /v3/assets/request,
\* POST /v2/assets/request, GET /v2/assets in that order; strategy k+1 is
\* invoked if and only if strategies 1..k all gave no usable array; after a
\* usable array no further strategy is invoked and the returned assets
\* come from that array only.
C5_StrategiesInOrder ==
    /\ Len(Listings) <= 4
    /\ IsPrefix(Listings, log)
    /\ \A i \in 1 .. Len(Listings) :
          <<Listings[i].method, Listings[i].path>> = FixedOrder[i]
    /\ \A i \in 1 .. Len(Listings) :
          Listings[i].array => i = Len(Listings)
    /\ (Len(Listings) \in 1 .. 3 /\ NoArrayYet) =>
          (pc = "list_assets" /\ k = Len(Listings) + 1)
    /\ \A i \in 1 .. Len(assets_to_list) :
          /\ Len(Listings) > 0
          /\ Listings[Len(Listings)].array
          /\ assets_to_list[i] \in Listings[Len(Listings)].ids

\* The third strategy answered with an array after two gave none, and its
\* asset is the one returned
C5_Witness ==
    /\ Len(Listings) = 3
    /\ Listings[3].array
    /\ ~Listings[1].array /\ ~Listings[2].array
    /\ assets_to_list # <<>>
    /\ pc = "select"

\* C6: when all four strategies give no usable array, list_assets returns
\* the empty sequence without raising, and the run sends no further request
\* and ends normally.
C6_ExhaustedListingEndsRun ==
    (Len(Listings) = 4 /\ NoArrayYet) =>
        /\ assets_to_list = <<>>
        /\ pc = "done"
        /\ exit_code = "0"
        /\ Len(log) = 4

\* The run after four strategies without an array
C6_Witness ==
    /\ Len(Listings) = 4
    /\ NoArrayYet
    /\ pc = "done"

\* The requests the final confirmation guards
GatedPaths ==
    {"/v2/contractdefinitions/request", "/v2/contractagreements/request",
     AssetPath, DefinitionPath, AgreementPath}
YesAnswers == {"yes", "YES", " yes "}

\* C8: without --yes, no definition or agreement listing and no DELETE is
\* sent before the operator answered yes, and any other answer ends the
\* run with no DELETE sent.
C8_ConfirmationGate ==
    ~args_yes =>
        /\ (\E i \in 1 .. Len(log) : log[i].path \in GatedPaths)
              => confirm \in YesAnswers
        /\ (confirm # None /\ confirm \notin YesAnswers)
              => (pc = "done" /\ exit_code = "0" /\ Deletes = <<>>)

\* An operator who answered YES, and a DELETE sent after it
C8_Witness ==
    /\ ~args_yes
    /\ confirm = "YES"
    /\ Deletes # <<>>

\* C9: selected a1 and a2, one definition targeting a1, one agreement
\* targeting a2, every delete succeeding: assets 2 deleted / 0 failed,
\* definitions 1 / 0, agreements 1 / 0; the calls for a1 are the
\* definition delete and the asset delete, those for a2 the agreement
\* delete and the asset delete.
C9_Scenario ==
    /\ selected_assets = <<"a1", "a2">>
    /\ all_contract_definitions =
          <<[id |-> "d1", assetsSelectorTarget |-> "a1"]>>
    /\ all_contract_agreements = <<[id |-> "g1", assetId |-> "a2"]>>

C9_EndToEnd ==
    (C9_Scenario /\ pc = "done" /\ false_returns = 0) =>
        /\ counts = [deleted_assets_count |-> 2, failed_assets_count |-> 0,
                     deleted_cds_count |-> 1, failed_cds_count |-> 0,
                     deleted_cas_count |-> 1, failed_cas_count |-> 0]
        /\ Issued = <<<<DefinitionPath, "d1", 1>>, <<AssetPath, "a1", 1>>,
                      <<AgreementPath, "g1", 2>>, <<AssetPath, "a2", 2>>>>

\* The scenario, run to its end with every delete returning true
C9_Witness ==
    /\ C9_Scenario
    /\ pc = "done"
    /\ false_returns = 0
    /\ Len(Deletes) = 4

\* What the classification is said to be, on the normalized outcome
ClassifiedDeleted(rd) ==
    \/ rd.status = "success_no_content"
    \/ /\ rd.status \in {"success_json", "success_non_json"}
       /\ rd.status_code \in {200, 204}

\* C7: for every outcome of the normalizer the three executors return the
\* same boolean: true exactly for SuccessEmpty and for Success /
\* SuccessNonJSON with status 200 or 204, false for every Failed outcome
\* and for TransportException.
C7_UniformClassification ==
    call # NoCall =>
        LET rd == send_request(call.response) IN
        /\ call.returned = ClassifiedDeleted(rd)
        /\ delete_asset(rd) = call.returned
        /\ delete_contract_definition(rd) = call.returned
        /\ delete_contract_agreement(rd) = call.returned
        /\ rd.status \in {"failed", "exception"} => ~call.returned

\* delete_contract_definition on a 201 with an empty body: SuccessEmpty
C7_Witness ==
    /\ call.kind = "definition"
    /\ call.response = Response(201, EmptyBody)
    /\ call.returned

\* C10: a delete of an identifier that was already deleted, which the
\* server answers with a non-2xx status, returns false and leaves the
\* server as it was, for each of the three kinds.
C10_DeleteIsIdempotent ==
    [][(Entity(call'.kind, call'.id) \in gone /\ ~Is2xx(call'.response))
          => (~call'.returned /\ server' = server /\ gone' = gone)]_vars

\* An agreement deleted a second time, answered 404
C10_Witness ==
    /\ call.kind = "agreement"
    /\ Entity(call.kind, call.id) \in gone
    /\ ~call.present
    /\ call.response = Response(404, ObjectBody)
    /\ ~call.returned

\* The configuration is complete: the file exists and sets both values
ValidConfig == env.file /\ env.base_url /\ env.api_key

\* C11: when the environment file does not exist, or BASE_URL or API_KEY
\* is missing, the process terminates with a non-zero exit and no request
\* of any kind has been sent.
C11_ConfigErrorsFatal ==
    ~ValidConfig =>
        /\ log = <<>>
        /\ pc \in {"start", "done"}
        /\ pc = "start" => exit_code = "none"
        /\ pc = "done" => exit_code = "1"

\* A run whose file sets BASE_URL and no API_KEY, after it ended
C11_Witness ==
    /\ env = [file |-> TRUE, base_url |-> TRUE, api_key |-> FALSE]
    /\ pc = "done"
    /\ exit_code = "1"
    /\ log = <<>>

\* C12: once the configuration is valid, every run that ends ends with a
\* zero exit, whatever the outcomes of the listing and delete requests and
\* whatever the shape of the listed items.
C12_ValidConfigExitsZero ==
    (ValidConfig /\ pc = "done") => exit_code = "0"

DefinitionListPath == "/v2/contractdefinitions/request"
AgreementListPath == "/v2/contractagreements/request"

Positions(path) == {i \in 1 .. Len(log) : log[i].path = path}
DeletePositions == {i \in 1 .. Len(log) : IsDelete(log[i])}

FetchedOnceBeforeDeletes ==
    /\ Cardinality(Positions(DefinitionListPath)) <= 1
    /\ Cardinality(Positions(AgreementListPath)) <= 1
    /\ \A i \in DeletePositions :
          /\ \E j \in Positions(DefinitionListPath) : j < i
          /\ \E j \in Positions(AgreementListPath) : j < i
    /\ pc \in {"cascade", "summary"} =>
          /\ Positions(DefinitionListPath) # {}
          /\ Positions(AgreementListPath) # {}

SnapshotsKept ==
    /\ Positions(DefinitionListPath) # {} =>
          all_contract_definitions' = all_contract_definitions
    /\ Positions(AgreementListPath) # {} =>
          all_contract_agreements' = all_contract_agreements

\* C13: the definitions snapshot and the agreements snapshot are each
\* fetched exactly once per run, both before the first DELETE, and once
\* fetched a snapshot never changes, also after entities of it have been
\* deleted.
C13_SnapshotsFetchedOnce ==
    [](FetchedOnceBeforeDeletes) /\ [][SnapshotsKept]_vars

\* A finished run that deleted a definition and an agreement, both still
\* in the snapshots
C13_Witness ==
    /\ pc = "done"
    /\ counts.deleted_cds_count = 1
    /\ counts.deleted_cas_count = 1
    /\ Len(all_contract_definitions) = 1
    /\ Len(all_contract_agreements) = 1
    /\ Cardinality(Positions(DefinitionListPath)) = 1
    /\ Cardinality(Positions(AgreementListPath)) = 1

\* C14: no retries: in any run at most one DELETE is sent for any entity
\* identifier of a kind, so after a delete returned false no further
\* DELETE for that identifier is sent; this for every listing result,
\* also one that holds the same identifier more than once.
C14_NoRetries ==
    \A i, j \in 1 .. Len(Deletes) :
        i < j => ~(/\ Deletes[i].path = Deletes[j].path
                   /\ Deletes[i].id = Deletes[j].id)

\* A raw definition / agreement with an identifier and no target at all
AbsentTargetDefinitions ==
    {RawDef(d, AbsentSel, AbsentSel) : d \in DefIds}
AbsentTargetAgreements ==
    {RawAgr(g, None, AbsentObj, AbsentPolicy) : g \in AgrIds}

\* ... is extracted, with no target, into the snapshot
AbsentTargetsExtracted ==
    /\ \A item \in AbsentTargetDefinitions :
          extract_definitions(<<item>>, 1, <<>>) =
             <<[id |-> item.id, assetsSelectorTarget |-> None]>>
    /\ \A item \in AbsentTargetAgreements :
          extract_agreements(<<item>>, 1, <<>>) =
             <<[id |-> item.id, assetId |-> None]>>

DeleteStep(path) ==
    /\ Len(log') = Len(log) + 1
    /\ log'[Len(log')].method = "DELETE"
    /\ log'[Len(log')].path = path

\* The entity a DELETE step is sent for is one that has a target
TargetlessNeverDeleted ==
    /\ DeleteStep(DefinitionPath) =>
          /\ all_contract_definitions[idx' - 1].id = log'[Len(log')].id
          /\ ~Falsy(all_contract_definitions[idx' - 1].assetsSelectorTarget)
    /\ DeleteStep(AgreementPath) =>
          /\ all_contract_agreements[idx' - 1].id = log'[Len(log')].id
          /\ ~Falsy(all_contract_agreements[idx' - 1].assetId)

\* C15: a contract definition or agreement whose target is absent is
\* extracted without raising, is kept in the snapshot, and is never matched
\* to a selected asset: no DELETE is ever sent for it.
C15_AbsentTargetNeverMatched ==
    /\ [](AbsentTargetsExtracted)
    /\ [](Positions(DefinitionListPath) # {} => exit_code # "1")
    /\ [][TargetlessNeverDeleted]_vars

\* A finished run whose snapshots hold a definition and an agreement
\* without target, and whose only DELETE is that of the asset
C15_Witness ==
    /\ pc = "done"
    /\ all_contract_definitions =
          <<[id |-> "d1", assetsSelectorTarget |-> None]>>
    /\ all_contract_agreements = <<[id |-> "g1", assetId |-> None]>>
    /\ Len(Deletes) = 1
    /\ Deletes[1].path = AssetPath

\* The raw items that are structured objects with an identifier
WellFormedItem(item) == item.kind = "dict" /\ ~Falsy(item.id)
WellFormed == SelectSeq(raw.items, WellFormedItem)
WellFormedIds == [j \in 1 .. Len(WellFormed) |-> WellFormed[j].id]

ListedIds ==
    IF raw.extractor = "assets" THEN listed.entities
    ELSE [j \in 1 .. Len(listed.entities) |-> listed.entities[j].id]

\* C16: in all three extractors and for every listing strategy, a raw
\* item that lacks the identifier or is not a structured object is
\* skipped without an error: the listing returns exactly the entities of
\* the well-formed items, in their original order.
C16_MalformedItemsSkipped ==
    listed.done => (~listed.raised /\ ListedIds = WellFormedIds)

\* The criteria of a definition, from whichever field supplies them
SuppliedCriteria(item) ==
    IF item.assetsSelector.shape \in {"dict", "list"}
    THEN item.assetsSelector.crits
    ELSE item.criterion.crits

IdKeyEquals(c) ==
    /\ c.kind = "dict"
    /\ c.operandLeft \in {"ns:id", "https://w3id.org/edc/v0.0.1/ns/id"}
    /\ c.operator = "="

Matches(cs) == {i \in 1 .. Len(cs) : IdKeyEquals(cs[i])}
NonEmptyMatches(cs) == {i \in Matches(cs) : ~Falsy(cs[i].operandRight)}

ListedDefinitions == listed.done /\ raw.extractor = "definitions"

\* C17 as stated: the target of a definition is the operandRight of the
\* first criterion whose operandLeft is the id key and whose operator is
\* "=", whatever field and shape supplied the criteria; criteria after
\* the first match never change it.
C17_FirstMatchWins ==
    ListedDefinitions =>
        /\ Len(listed.entities) = Len(WellFormed)
        /\ \A j \in 1 .. Len(WellFormed) :
              LET cs == SuppliedCriteria(WellFormed[j])
              IN  listed.entities[j].assetsSelectorTarget =
                     IF Matches(cs) = {} THEN None
                     ELSE cs[Least(Matches(cs))].operandRight

\* C17 as amended: the target is the operandRight of the first matching
\* criterion whose operandRight is not empty, and is empty when no
\* matching criterion has one; the criteria are those of assetsSelector
\* when it is an object or a list, else those of the legacy field.
C17_FirstNonEmptyMatchWins ==
    ListedDefinitions =>
        /\ Len(listed.entities) = Len(WellFormed)
        /\ \A j \in 1 .. Len(WellFormed) :
              LET cs == SuppliedCriteria(WellFormed[j])
                  t == listed.entities[j].assetsSelectorTarget
              IN  IF NonEmptyMatches(cs) = {} THEN Falsy(t)
                  ELSE t = cs[Least(NonEmptyMatches(cs))].operandRight

\* A definition whose first matching criterion has no operandRight and
\* whose second names a2, followed by nothing: the target is a2
C17_Witness ==
    /\ ListedDefinitions
    /\ raw.items =
          <<RawDef("d1", ListSel(<<Criterion("ns:id", "=", None),
                                   Criterion("ns:id", "=", "a2")>>),
                   AbsentSel)>>
    /\ listed.entities = <<[id |-> "d1", assetsSelectorTarget |-> "a2"]>>

\* The three sources of an agreement's target, in their order
TopLevelAssetId(item) == item.assetId
NestedAssetId(item) ==
    IF item.asset.kind = "dict" THEN item.asset.id ELSE None
PolicyTargetId(item) ==
    IF item.policy.kind = "str" \/ item.policy.target.kind = "absent"
    THEN None ELSE item.policy.target.id

\* C18: the target of an agreement is the first non-empty of the
\* top-level asset id, the nested asset object's id and the policy's
\* target (its id when it is an object); a lower source counts only when
\* every higher one is empty.
C18_OrderedFallback ==
    (listed.done /\ raw.extractor = "agreements") =>
        /\ Len(listed.entities) = Len(WellFormed)
        /\ \A j \in 1 .. Len(WellFormed) :
              LET item == WellFormed[j]
                  t == listed.entities[j].assetId
              IN  IF ~Falsy(TopLevelAssetId(item))
                  THEN t = TopLevelAssetId(item)
                  ELSE IF ~Falsy(NestedAssetId(item))
                  THEN t = NestedAssetId(item)
                  ELSE IF ~Falsy(PolicyTargetId(item))
                  THEN t = PolicyTargetId(item)
                  ELSE Falsy(t)

\* An agreement with no top-level asset id, a nested asset a1 and a policy
\* that targets a2: the target is a1
C18_Witness ==
    /\ listed.done
    /\ raw.items = <<RawAgr("g1", None, DictObj("a1"),
                            DictPolicy(StrObj("a2")))>>
    /\ listed.entities = <<[id |-> "g1", assetId |-> "a1"]>>

\* C19: the normalizer maps every transport result to one outcome: a
\* network failure to TransportException with no status code, a status
\* outside [200,300) to Failed whatever the body, a 2xx status to
\* SuccessEmpty on an empty body, to Success with the parsed data on a
\* body that parses as JSON, to SuccessNonJSON without data otherwise.
C19_NormalizerClassifies ==
    call # NoCall =>
        LET r == call.response
            o == call.outcome
            ok == ~r.exc /\ 200 <= r.code /\ r.code < 300
        IN  /\ r.exc => (o.status = "exception" /\ o.status_code = 0)
            /\ (~r.exc /\ ~ok) =>
                  (o.status = "failed" /\ o.data = NoData)
            /\ ~r.exc => o.status_code = r.code
            /\ (ok /\ r.body.kind = "empty") =>
                  (o.status = "success_no_content" /\ o.data = NoData)
            /\ (ok /\ r.body.kind \in {"list", "object"}) =>
                  (o.status = "success_json" /\ o.data = r.body)
            /\ (ok /\ r.body.kind = "text") =>
                  (o.status = "success_non_json" /\ o.data = NoData)

\* A 404 with an empty body: Failed, not SuccessEmpty
C19_Witness ==
    /\ call.response = Response(404, EmptyBody)
    /\ call.outcome.status = "failed"

ListingFailed(path) == \E i \in Positions(path) : ~log[i].array

\* C20: a definitions or agreements listing that fails (Failed,
\* TransportException, or a success without a JSON array) gives an empty
\* snapshot and is never fatal: the run goes on, attempts the delete of
\* every selected asset, and sends no DELETE of the kind whose listing
\* failed.
C20_ListingFailureDegrades ==
    /\ ListingFailed(DefinitionListPath) =>
          /\ all_contract_definitions = <<>>
          /\ Attempts(DefinitionPath) = 0
          /\ pc \in {"list_agrs", "cascade", "summary", "done"}
    /\ ListingFailed(AgreementListPath) =>
          /\ all_contract_agreements = <<>>
          /\ Attempts(AgreementPath) = 0
          /\ pc \in {"cascade", "summary", "done"}
    /\ ( /\ ListingFailed(DefinitionListPath)
             \/ ListingFailed(AgreementListPath)
         /\ pc = "done" ) =>
          /\ exit_code = "0"
          /\ Attempts(AssetPath) = Len(selected_assets)
          /\ Positions(AgreementListPath) # {}

\* A finished run in which both listings failed and the selected asset
\* was still sent its DELETE
C20_Witness ==
    /\ pc = "done"
    /\ ListingFailed(DefinitionListPath)
    /\ ListingFailed(AgreementListPath)
    /\ Len(selected_assets) = 1
    /\ Attempts(AssetPath) = 1

\* The entries that are in-range indices only, and the indices they name
itemCount == Len(assets_to_list)
IndexOf(p) ==
    CASE p = "1" -> 0
      [] p = "2" -> 1
      [] p = "3" -> 2
InRangeParts == {p \in {"1", "2", "3"} : IndexOf(p) < itemCount}
IndexEntry(parts) ==
    parts # <<>> /\ \A i \in 1 .. Len(parts) : parts[i] \in InRangeParts
IndicesOf(parts) == {IndexOf(parts[i]) : i \in 1 .. Len(parts)}

Flipped ==
    IndexEntry(entry.parts) =>
        /\ ~entry.done
        /\ \A i \in 0 .. itemCount - 1 :
              (i \in selected_indices) =
                 IF i \in IndicesOf(entry.parts)
                 THEN i \notin entry.prior ELSE i \in entry.prior

AllOrNone ==
    /\ entry.parts \in {<<"A">>, <<"a">>} =>
          /\ entry.done
          /\ selected_indices = 0 .. itemCount - 1
          /\ Len(selected_assets) = itemCount
          /\ \A i \in 1 .. itemCount :
                \E j \in 1 .. itemCount :
                    selected_assets[j] = assets_to_list[i]
    /\ entry.parts = <<"N">> =>
          (entry.done /\ selected_indices = {} /\ selected_assets = <<>>)

SameEntryAgain ==
    (entry # NoEntry /\ entry' # entry /\ entry'.parts = entry.parts
        /\ IndexEntry(entry.parts))
    => selected_indices' = entry.prior

\* C21: the selection stays within [0, itemCount); an entry of in-range
\* indices flips the membership of exactly those indices and leaves every
\* other index as it was, so the same index entry twice in a row restores
\* the prior selection; "A" ends the prompt with all items selected, "N"
\* with none.
C21_SelectionToggles ==
    /\ [](selected_indices \subseteq 0 .. itemCount - 1)
    /\ [](Flipped /\ AllOrNone)
    /\ [][SameEntryAgain]_vars

\* Of two items the first was selected; the entry "1,2" drops it and
\* takes the second
C21_Witness ==
    /\ itemCount = 2
    /\ entry = [parts |-> <<"1", "2">>, prior |-> {0}, done |-> FALSE]
    /\ selected_indices = {1}

====
